---- MODULE Spec2Model ----
(***************************************************************************)
(* Model of pipe/hdfs.go: the HDFS file-system adapter (OpenRead,          *)
(* OpenWrite, MkdirAll, Rename, Remove, Close), the retry wrapper          *)
(* (withRetry, retriable) and the polling consumer (waitAndOpenNextFile,   *)
(* FetchNext).                                                             *)
(*                                                                         *)
(* Three specifications share one state:                                   *)
(*   SpecRetry     the retry wrapper and the four adapter methods using it *)
(*   SpecFS        OpenRead / OpenWrite over a model of the HDFS client    *)
(*   SpecConsumer  the consumer's FetchNext loop over a topic directory    *)
(***************************************************************************)
EXTENDS Integers, Sequences, FiniteSets, TLC

VARIABLES
    \* ---- withRetry (hdfs.go:69-76) and its callers (hdfs.go:78-92)
    r_pc,       \* "idle" | "loop" (at the for-condition) | "done"
    r_fn,       \* the closure handed to withRetry: the client call and its arguments
    r_inv,      \* the client call made by the latest invocation of fn
    r_i,        \* loop counter i
    r_err,      \* local err: outcome of the latest invocation of fn
    r_ret,      \* value returned by withRetry
    r_calls,    \* invocations of fn in this withRetry call
    r_sleeps,   \* time.Sleep(100ms) calls in this withRetry call
    r_nTrans,   \* invocations so far whose error text carries a transient marker
    r_api,      \* the adapter method being executed: method, args, and what it returned
    \* ---- OpenRead / OpenWrite (hdfs.go:40-60) over the HDFS client
    fs,         \* the remote namespace: path -> [exists, data]
    f_pc,       \* "idle" | "ret" (an adapter call has just returned)
    f_call,     \* the latest adapter call: arguments, injected client faults, file before
    f_res,      \* what that call returned and the client calls it made
    rs,         \* the read stream returned by the latest OpenRead
    ws,         \* the write stream returned by the latest OpenWrite
    \* ---- hdfsConsumer (hdfs.go:137-169) over a topic directory
    dir,        \* the topic's files in rotation order: [status, recs]
    canceled,   \* the consumer's context has been canceled
    cons,       \* the consumer object: name, file, off, err, msg
    c_pc,       \* "idle" | "fetch" (top of FetchNext's loop) | "poll" | "sleep"
    c_ret,      \* what the latest FetchNext returned: "none" | "true" | "false"
    c_loc,      \* nextFn, err of the latest nextFile call made in this FetchNext,
                \* the nextFn of the call before it, whether the context was canceled
    c_opened,   \* the openFile calls made so far: [name, offset]
    c_sleeps,   \* time.Sleep(200ms) calls made in this FetchNext
    c_delivered \* the records FetchNext has handed to its caller, in order

rvars == <<r_pc, r_fn, r_inv, r_i, r_err, r_ret, r_calls, r_sleeps, r_nTrans, r_api>>

fvars == <<fs, f_pc, f_call, f_res, rs, ws>>

cvars == <<dir, canceled, cons, c_pc, c_ret, c_loc, c_opened, c_sleeps, c_delivered>>

vars == <<r_pc, r_fn, r_inv, r_i, r_err, r_ret, r_calls, r_sleeps, r_nTrans, r_api,
          fs, f_pc, f_call, f_res, rs, ws,
          dir, canceled, cons, c_pc, c_ret, c_loc, c_opened, c_sleeps, c_delivered>>

-----------------------------------------------------------------------------
(* Errors.  A Go error is modelled by its Error() text, a sequence of text *)
(* fragments; nil is the empty sequence.                                   *)

NoErr == <<>>

StandbyMarker == "org.apache.hadoop.ipc.StandbyException"
RetriableMarker == "org.apache.hadoop.ipc.RetriableException"

ErrStandby == <<StandbyMarker, ": Operation category WRITE is not supported in state standby">>
ErrRetriable == <<"create: ", RetriableMarker, ": NameNode still not started">>
ErrNotExist == <<"file does not exist">>
ErrExist == <<"file already exists">>
ErrRemote == <<"org.apache.hadoop.ipc.RemoteException", ": permission denied">>
ErrSeek == <<"invalid resulting offset">>

\* error texts that carry one of the two markers / that carry none
TransientErrs == {ErrStandby, ErrRetriable}
PermanentErrs == {ErrNotExist, ErrRemote}

\* strings.Contains on the fragment sequence
Contains(text, marker) == \E k \in 1..Len(text) : text[k] = marker

-----------------------------------------------------------------------------
(* withRetry *)

retryTimeout == 10

retriable_StandbyOnly(err) == Contains(err, StandbyMarker)

retriable_Always(err) == TRUE

retriable(err) ==
    \/ Contains(err, StandbyMarker)
    \/ Contains(err, RetriableMarker)

LoopCond_OffByOne(err, i) == err # NoErr /\ retriable(err) /\ i < retryTimeout * 10 - 1

\* the for-condition of withRetry
LoopCond(err, i) == err # NoErr /\ retriable(err) /\ i < retryTimeout * 10

\* what one invocation of fn can produce: the client call is external
FnOutcomes == {NoErr} \cup TransientErrs \cup PermanentErrs

IsTransient(e) == e \in TransientErrs

\* err := fn()   (first statement of withRetry)
WithRetryEnter(fn) ==
    /\ r_pc = "idle"
    /\ \E e \in FnOutcomes :
        /\ r_err' = e
        /\ r_nTrans' = IF IsTransient(e) THEN 1 ELSE 0
    /\ r_fn' = fn
    /\ r_inv' = fn
    /\ r_i' = 0
    /\ r_calls' = 1
    /\ r_sleeps' = 0
    /\ r_ret' = NoErr
    /\ r_pc' = "loop"
    /\ UNCHANGED <<fvars, cvars>>

\* time.Sleep(100 * time.Millisecond)
SleepStep(n) == n + 1

\* one iteration of the for loop: sleep, err = fn(), i++
WithRetryIter ==
    /\ r_pc = "loop"
    /\ LoopCond(r_err, r_i)
    /\ r_sleeps' = SleepStep(r_sleeps)
    /\ \E e \in FnOutcomes :
        /\ r_err' = e
        /\ r_nTrans' = IF IsTransient(e) THEN r_nTrans + 1 ELSE r_nTrans
    /\ r_inv' = r_fn
    /\ r_calls' = r_calls + 1
    /\ r_i' = r_i + 1
    /\ UNCHANGED <<r_pc, r_fn, r_ret, r_api>>
    /\ UNCHANGED <<fvars, cvars>>

RetValue_Nil(err) == NoErr

RetValue(err) == err

AdapterReturn_Swallow(v) == NoErr

\* return withRetry(...): the adapter method hands on withRetry's value
AdapterReturn(v) == v

\* return err
WithRetryReturn ==
    /\ r_pc = "loop"
    /\ ~LoopCond(r_err, r_i)
    /\ r_ret' = RetValue(r_err)
    /\ r_api' = [r_api EXCEPT !.ret = AdapterReturn(RetValue(r_err))]
    /\ r_pc' = "done"
    /\ UNCHANGED <<r_fn, r_inv, r_i, r_err, r_calls, r_sleeps, r_nTrans>>
    /\ UNCHANGED <<fvars, cvars>>

\* the caller goes on to its next adapter call
WithRetryDone ==
    /\ r_pc = "done"
    /\ r_pc' = "idle"
    /\ UNCHANGED <<r_fn, r_inv, r_i, r_err, r_ret, r_calls, r_sleeps, r_nTrans, r_api>>
    /\ UNCHANGED <<fvars, cvars>>

Paths == {"/t/a", "/t/b"}
Perms == {"0770"}

\* an adapter method is entered: which one, with which arguments
Entered(method, args) == r_api' = [method |-> method, args |-> args, ret |-> NoErr]

MkdirAll(path, perm) ==
    /\ Entered("MkdirAll", <<path, perm>>)
    /\ WithRetryEnter([op |-> "MkdirAll", args |-> <<path, perm>>])

Rename_Swapped(oldpath, newpath) ==
    /\ Entered("Rename", <<oldpath, newpath>>)
    /\ WithRetryEnter([op |-> "Rename", args |-> <<newpath, oldpath>>])

Rename(oldpath, newpath) ==
    /\ Entered("Rename", <<oldpath, newpath>>)
    /\ WithRetryEnter([op |-> "Rename", args |-> <<oldpath, newpath>>])

Remove(path) ==
    /\ Entered("Remove", <<path>>)
    /\ WithRetryEnter([op |-> "Remove", args |-> <<path>>])

Close(f) ==
    /\ Entered("Close", <<f>>)
    /\ WithRetryEnter([op |-> "Close", args |-> <<f>>])

InitRetry ==
    /\ r_pc = "idle"
    /\ r_fn = [op |-> "none", args |-> <<>>]
    /\ r_inv = [op |-> "none", args |-> <<>>]
    /\ r_i = 0
    /\ r_err = NoErr
    /\ r_ret = NoErr
    /\ r_calls = 0
    /\ r_sleeps = 0
    /\ r_nTrans = 0
    /\ r_api = [method |-> "none", args |-> <<>>, ret |-> NoErr]

-----------------------------------------------------------------------------
(* The HDFS client (github.com/colinmarc/hdfs), as the adapter sees it.    *)
(* A file is [exists, data]; data is a sequence of bytes.                  *)

MaxLen == 2

\* the k-th byte a writer puts into a file (every position holds a different byte)
Payload(k) == 100 + k

NoFile == [exists |-> FALSE, data |-> <<>>]

NoStream == [open |-> FALSE, path |-> "", pos |-> 0]

\* p.Client.Open(name): fails on a missing path, or for a cluster-side reason
ClientOpen(fsys, name, fault) ==
    IF fault # NoErr THEN [err |-> fault, f |-> NoStream]
    ELSE IF ~fsys[name].exists THEN [err |-> ErrNotExist, f |-> NoStream]
    ELSE [err |-> NoErr, f |-> [open |-> TRUE, path |-> name, pos |-> 0]]

\* f.Seek(offset, os.SEEK_SET): fails outside 0..size
ClientSeek(fsys, f, offset, fault) ==
    IF fault # NoErr THEN [err |-> fault, f |-> f]
    ELSE IF offset < 0 \/ offset > Len(fsys[f.path].data) THEN [err |-> ErrSeek, f |-> f]
    ELSE [err |-> NoErr, f |-> [f EXCEPT !.pos = offset]]

\* p.Client.Append(name): fails on a missing path, or for a cluster-side reason
ClientAppend(fsys, name, fault) ==
    IF fault # NoErr THEN [err |-> fault, f |-> NoStream, fs |-> fsys]
    ELSE IF ~fsys[name].exists THEN [err |-> ErrNotExist, f |-> NoStream, fs |-> fsys]
    ELSE [err |-> NoErr, f |-> [open |-> TRUE, path |-> name, pos |-> Len(fsys[name].data)],
          fs |-> fsys]

\* p.Client.Create(name): makes an empty file; fails on an existing path
ClientCreate(fsys, name, fault) ==
    IF fault # NoErr THEN [err |-> fault, f |-> NoStream, fs |-> fsys]
    ELSE IF fsys[name].exists THEN [err |-> ErrExist, f |-> NoStream, fs |-> fsys]
    ELSE [err |-> NoErr, f |-> [open |-> TRUE, path |-> name, pos |-> 0],
          fs |-> [fsys EXCEPT ![name] = [exists |-> TRUE, data |-> <<>>]]]

Call(c, r) == [c |-> c, ok |-> r.err = NoErr]

-----------------------------------------------------------------------------
(* OpenRead, OpenWrite *)

OpenRead_NoSeek(fsys, name, offset, openFault, seekFault) ==
    LET o == ClientOpen(fsys, name, openFault)
    IN  IF o.err # NoErr
        THEN [f |-> NoStream, err |-> o.err, calls |-> <<Call("Open", o)>>, unowned |-> FALSE]
        ELSE [f |-> o.f, err |-> NoErr, calls |-> <<Call("Open", o)>>, unowned |-> FALSE]

OpenRead_RetryOpen(fsys, name, offset, openFault, seekFault) ==
    LET o1 == ClientOpen(fsys, name, openFault)
        again == o1.err # NoErr /\ retriable(o1.err)
        o == IF again THEN ClientOpen(fsys, name, NoErr) ELSE o1
        opens == IF again THEN <<Call("Open", o1), Call("Open", o)>> ELSE <<Call("Open", o)>>
    IN  IF o.err # NoErr
        THEN [f |-> NoStream, err |-> o.err, calls |-> opens, unowned |-> FALSE]
        ELSE LET s == ClientSeek(fsys, o.f, offset, seekFault)
             IN  IF s.err # NoErr
                 THEN [f |-> NoStream, err |-> s.err,
                       calls |-> Append(opens, Call("Seek", s)), unowned |-> TRUE]
                 ELSE [f |-> s.f, err |-> NoErr,
                       calls |-> Append(opens, Call("Seek", s)), unowned |-> FALSE]

\* result: the stream and error returned, the client calls made, and whether
\* a handle the client opened is left neither returned nor closed
OpenRead(fsys, name, offset, openFault, seekFault) ==
    LET o == ClientOpen(fsys, name, openFault)
    IN  IF o.err # NoErr
        THEN [f |-> NoStream, err |-> o.err, calls |-> <<Call("Open", o)>>, unowned |-> FALSE]
        ELSE LET s == ClientSeek(fsys, o.f, offset, seekFault)
             IN  IF s.err # NoErr
                 THEN [f |-> NoStream, err |-> s.err,
                       calls |-> <<Call("Open", o), Call("Seek", s)>>, unowned |-> TRUE]
                 ELSE [f |-> s.f, err |-> NoErr,
                       calls |-> <<Call("Open", o), Call("Seek", s)>>, unowned |-> FALSE]

OpenWrite_CreateFirst(fsys, name, appendFault, createFault) ==
    LET c == ClientCreate(fsys, name, createFault)
    IN  IF c.err # NoErr
        THEN LET a == ClientAppend(c.fs, name, appendFault)
             IN  [f |-> a.f, seeker |-> "nil", err |-> a.err, fs |-> a.fs,
                  calls |-> <<Call("Create", c), Call("Append", a)>>]
        ELSE [f |-> c.f, seeker |-> "nil", err |-> c.err, fs |-> c.fs,
              calls |-> <<Call("Create", c)>>]

OpenWrite_AlwaysCreate(fsys, name, appendFault, createFault) ==
    LET a == ClientAppend(fsys, name, appendFault)
        c == ClientCreate(a.fs, name, createFault)
    IN  [f |-> c.f, seeker |-> "nil", err |-> c.err, fs |-> c.fs,
         calls |-> <<Call("Append", a), Call("Create", c)>>]

OpenWrite_KeepAppendErr(fsys, name, appendFault, createFault) ==
    LET a == ClientAppend(fsys, name, appendFault)
    IN  IF a.err # NoErr
        THEN LET c == ClientCreate(a.fs, name, createFault)
             IN  [f |-> c.f, seeker |-> "nil",
                  err |-> IF c.err # NoErr THEN a.err ELSE NoErr, fs |-> c.fs,
                  calls |-> <<Call("Append", a), Call("Create", c)>>]
        ELSE [f |-> a.f, seeker |-> "nil", err |-> a.err, fs |-> a.fs,
              calls |-> <<Call("Append", a)>>]

\* result: the stream, seeker and error returned, the namespace afterwards
\* and the client calls made
OpenWrite(fsys, name, appendFault, createFault) ==
    LET a == ClientAppend(fsys, name, appendFault)
    IN  IF a.err # NoErr
        THEN LET c == ClientCreate(a.fs, name, createFault)
             IN  [f |-> c.f, seeker |-> "nil", err |-> c.err, fs |-> c.fs,
                  calls |-> <<Call("Append", a), Call("Create", c)>>]
        ELSE [f |-> a.f, seeker |-> "nil", err |-> a.err, fs |-> a.fs,
              calls |-> <<Call("Append", a)>>]

\* cluster-side failures the client can report on any call
Faults == {NoErr, ErrStandby, ErrRemote}
Offsets == (0 - 1)..(MaxLen + 1)

NoCall == [op |-> "none", name |-> "", offset |-> 0, faults |-> <<NoErr, NoErr>>,
           pre |-> NoFile]
NoRes == [f |-> NoStream, seeker |-> "nil", err |-> NoErr, calls |-> <<>>, unowned |-> FALSE]

DoOpenRead(name, offset, openFault, seekFault) ==
    /\ f_pc = "idle"
    /\ LET r == OpenRead(fs, name, offset, openFault, seekFault)
       IN  /\ f_res' = [f |-> r.f, seeker |-> "nil", err |-> r.err, calls |-> r.calls,
                        unowned |-> r.unowned]
           /\ rs' = [f |-> r.f, want |-> offset, first |-> <<>>]
    /\ f_call' = [op |-> "OpenRead", name |-> name, offset |-> offset,
                  faults |-> <<openFault, seekFault>>, pre |-> fs[name]]
    /\ f_pc' = "ret"
    /\ UNCHANGED <<fs, ws>>
    /\ UNCHANGED <<rvars, cvars>>

DoOpenWrite(name, appendFault, createFault) ==
    /\ f_pc = "idle"
    /\ LET r == OpenWrite(fs, name, appendFault, createFault)
       IN  /\ f_res' = [f |-> r.f, seeker |-> r.seeker, err |-> r.err, calls |-> r.calls,
                        unowned |-> FALSE]
           /\ fs' = r.fs
           /\ ws' = r.f
    /\ f_call' = [op |-> "OpenWrite", name |-> name, offset |-> 0,
                  faults |-> <<appendFault, createFault>>, pre |-> fs[name]]
    /\ f_pc' = "ret"
    /\ UNCHANGED rs
    /\ UNCHANGED <<rvars, cvars>>

\* the caller takes the result and goes on
CallerResume ==
    /\ f_pc = "ret"
    /\ f_pc' = "idle"
    /\ f_call' = NoCall
    /\ f_res' = NoRes
    /\ UNCHANGED <<fs, rs, ws>>
    /\ UNCHANGED <<rvars, cvars>>

\* the owner of the read stream reads one byte from it
ReadByte ==
    /\ f_pc = "idle"
    /\ rs.f.open
    /\ rs.f.pos < Len(fs[rs.f.path].data)
    /\ rs' = [rs EXCEPT !.f.pos = @ + 1,
                        !.first = IF @ = <<>> THEN <<fs[rs.f.path].data[rs.f.pos + 1]>> ELSE @]
    /\ UNCHANGED <<fs, f_pc, f_call, f_res, ws>>
    /\ UNCHANGED <<rvars, cvars>>

\* the owner of the write stream appends one byte through it
WriteByte ==
    /\ f_pc = "idle"
    /\ ws.open
    /\ Len(fs[ws.path].data) < MaxLen
    /\ fs' = [fs EXCEPT ![ws.path].data = Append(@, Payload(Len(@) + 1))]
    /\ ws' = [ws EXCEPT !.pos = @ + 1]
    /\ UNCHANGED <<f_pc, f_call, f_res, rs>>
    /\ UNCHANGED <<rvars, cvars>>

InitFS ==
    /\ fs = [p \in Paths |-> NoFile]
    /\ f_pc = "idle"
    /\ f_call = NoCall
    /\ f_res = NoRes
    /\ rs = [f |-> NoStream, want |-> 0, first |-> <<>>]
    /\ ws = NoStream

-----------------------------------------------------------------------------
(* The topic directory and the file-pipe base the consumer is built on     *)
(* (nextFile, openFile, fetchNextLow of fileConsumer; the producer).       *)
(* File names are sequences of characters.                                 *)

NFiles == 2
MaxRecs == 2
MaxSleeps == 2

DotOpen == <<".", "o", "p", "e", "n">>

\* the i-th file of the topic, in rotation order: "f", "ff", ...
FileName(i) == [j \in 1..i |-> "f"]

\* the name under which a file is listed while its producer still writes it
OpenName(i) == FileName(i) \o DotOpen

\* which file a listed name denotes (0: none)
FileIndex(fn) ==
    IF \E i \in 1..NFiles : fn \in {FileName(i), OpenName(i)}
    THEN CHOOSE i \in 1..NFiles : fn \in {FileName(i), OpenName(i)}
    ELSE 0

DiscoveryErrs == {ErrRemote}

\* nextFile(topic, curName): the results discovery can give.  Canceled: an
\* empty name and no error.  Otherwise the file after curName under the name
\* it is listed with (empty when there is none yet), or a failure.
nextFile(d, cncl, topic, curName) ==
    IF cncl THEN {[fn |-> <<>>, err |-> NoErr]}
    ELSE LET i == FileIndex(curName) + 1
             cand == IF i > NFiles \/ d[i].status = "absent" THEN <<>>
                     ELSE IF d[i].status = "open" THEN OpenName(i)
                     ELSE FileName(i)
         IN  {[fn |-> cand, err |-> NoErr]} \cup {[fn |-> <<>>, err |-> e] : e \in DiscoveryErrs}

\* openFile(fn, offset): the cursor moves to file fn, positioned at offset
openFile(cs, fn, offset) ==
    [cs EXCEPT !.name = fn, !.file = FileIndex(fn), !.off = offset]

NoMsg == <<0, 0>>

\* fetchNextLow(): decode the next record of the open file, if it has one left
fetchNextLow(cs, d) ==
    IF cs.file # 0 /\ cs.off < d[cs.file].recs
    THEN [ok |-> TRUE, cons |-> [cs EXCEPT !.off = @ + 1, !.msg = <<cs.file, cs.off + 1>>]]
    ELSE [ok |-> FALSE, cons |-> cs]

\* log.E(err): logs err and reports whether there is one
LogE(err) == err # NoErr

-----------------------------------------------------------------------------
(* hdfsConsumer *)

\* strings.HasSuffix
HasSuffix(str, suffix) ==
    /\ Len(str) >= Len(suffix)
    /\ SubSeq(str, Len(str) - Len(suffix) + 1, Len(str)) = suffix

Openable_AnyName(nextFn) == nextFn # <<>>

\* the condition under which waitAndOpenNextFile opens the candidate
Openable(nextFn) == nextFn # <<>> /\ ~HasSuffix(nextFn, DotOpen)

OpenOffset_One == 0 + 1

\* the offset waitAndOpenNextFile opens a file at
OpenOffset == 0

waitAndOpenNextFile_ErrNotStored(cs, r, opened) ==
    IF LogE(r.err)
    THEN [exit |-> TRUE, ret |-> TRUE, cons |-> cs, opened |-> opened]
    ELSE IF Openable(r.fn)
    THEN [exit |-> TRUE, ret |-> TRUE, cons |-> openFile(cs, r.fn, OpenOffset),
          opened |-> Append(opened, [name |-> r.fn, offset |-> OpenOffset])]
    ELSE [exit |-> FALSE, ret |-> TRUE, cons |-> cs, opened |-> opened]

\* one iteration of waitAndOpenNextFile's loop on discovery result r:
\* exit: the function returns (ret) / it goes to sleep and polls again
waitAndOpenNextFile(cs, r, opened) ==
    IF LogE(r.err)
    THEN [exit |-> TRUE, ret |-> TRUE, cons |-> [cs EXCEPT !.err = r.err], opened |-> opened]
    ELSE IF Openable(r.fn)
    THEN [exit |-> TRUE, ret |-> TRUE, cons |-> openFile(cs, r.fn, OpenOffset),
          opened |-> Append(opened, [name |-> r.fn, offset |-> OpenOffset])]
    ELSE [exit |-> FALSE, ret |-> TRUE, cons |-> cs, opened |-> opened]

NoLoc == [polled |-> FALSE, nextFn |-> <<>>, err |-> NoErr, prevFn |-> <<>>,
          cncl |-> FALSE]

\* FetchNext is called
FetchNextCall ==
    /\ c_pc = "idle"
    /\ c_pc' = "fetch"
    /\ c_ret' = "none"
    /\ c_loc' = NoLoc
    /\ c_sleeps' = 0
    /\ UNCHANGED <<dir, canceled, cons, c_opened, c_delivered>>
    /\ UNCHANGED <<rvars, fvars>>

FetchNextLow_DiscoverFirst ==
    /\ c_pc = "fetch"
    /\ c_pc' = "poll"
    /\ UNCHANGED <<dir, canceled, cons, c_ret, c_loc, c_opened, c_sleeps, c_delivered>>
    /\ UNCHANGED <<rvars, fvars>>

\* FetchNext: if p.fetchNextLow() { return true }, else on to discovery
FetchNextLow ==
    /\ c_pc = "fetch"
    /\ LET r == fetchNextLow(cons, dir)
       IN  /\ cons' = r.cons
           /\ IF r.ok THEN /\ c_pc' = "idle"
                           /\ c_ret' = "true"
                           /\ c_delivered' = Append(c_delivered, r.cons.msg)
                      ELSE /\ c_pc' = "poll"
                           /\ c_ret' = c_ret
                           /\ c_delivered' = c_delivered
    /\ UNCHANGED <<dir, canceled, c_loc, c_opened, c_sleeps>>
    /\ UNCHANGED <<rvars, fvars>>

CurName_Empty(cs) == <<>>

\* the current file name FetchNext's discovery starts from: p.name
CurName(cs) == cs.name

AfterWait_TrueOnOpen(ret, cs) ==
    IF ~ret THEN "false" ELSE "true"

\* FetchNext after waitAndOpenNextFile has returned ret: return false,
\* return true, or go round the loop
AfterWait(ret, cs) ==
    IF ~ret THEN "false"
    ELSE IF cs.err # NoErr THEN "true"
    ELSE "loop"

\* one poll of waitAndOpenNextFile and, when it returns, the rest of
\* FetchNext's loop body
FetchNextPoll ==
    /\ c_pc = "poll"
    /\ \E r \in nextFile(dir, canceled, "T", CurName(cons)) :
        LET w == waitAndOpenNextFile(cons, r, c_opened)
            a == AfterWait(w.ret, w.cons)
        IN  /\ c_loc' = [polled |-> TRUE, nextFn |-> r.fn, err |-> r.err,
                          prevFn |-> c_loc.nextFn, cncl |-> canceled]
            /\ cons' = w.cons
            /\ c_opened' = w.opened
            /\ IF ~w.exit THEN c_pc' = "sleep" /\ c_ret' = c_ret
               ELSE IF a = "false" THEN c_pc' = "idle" /\ c_ret' = "false"
               ELSE IF a = "true" THEN c_pc' = "idle" /\ c_ret' = "true"
               ELSE c_pc' = "fetch" /\ c_ret' = c_ret
    /\ UNCHANGED <<dir, canceled, c_sleeps, c_delivered>>
    /\ UNCHANGED <<rvars, fvars>>

\* time.Sleep(200 * time.Millisecond), then the loop polls again
FetchNextSleep ==
    /\ c_pc = "sleep"
    /\ c_sleeps < MaxSleeps
    /\ c_sleeps' = c_sleeps + 1
    /\ c_pc' = "poll"
    /\ UNCHANGED <<dir, canceled, cons, c_ret, c_loc, c_opened, c_delivered>>
    /\ UNCHANGED <<rvars, fvars>>

\* the producer starts the next file of the topic
ProducerCreate ==
    /\ \E i \in 1..NFiles :
        /\ dir[i].status = "absent"
        /\ IF i = 1 THEN TRUE ELSE dir[i - 1].status = "final"
        /\ dir' = [dir EXCEPT ![i].status = "open"]
    /\ UNCHANGED <<canceled, cons, c_pc, c_ret, c_loc, c_opened, c_sleeps, c_delivered>>
    /\ UNCHANGED <<rvars, fvars>>

\* the producer appends a record to the file it is writing
ProducerWrite ==
    /\ \E i \in 1..NFiles :
        /\ dir[i].status = "open"
        /\ dir[i].recs < MaxRecs
        /\ dir' = [dir EXCEPT ![i].recs = @ + 1]
    /\ UNCHANGED <<canceled, cons, c_pc, c_ret, c_loc, c_opened, c_sleeps, c_delivered>>
    /\ UNCHANGED <<rvars, fvars>>

\* the producer finalizes the file it is writing (rotation)
ProducerRotate ==
    /\ \E i \in 1..NFiles :
        /\ dir[i].status = "open"
        /\ dir' = [dir EXCEPT ![i].status = "final"]
    /\ UNCHANGED <<canceled, cons, c_pc, c_ret, c_loc, c_opened, c_sleeps, c_delivered>>
    /\ UNCHANGED <<rvars, fvars>>

\* the consumer's context is canceled
Cancel ==
    /\ ~canceled
    /\ canceled' = TRUE
    /\ UNCHANGED <<dir, cons, c_pc, c_ret, c_loc, c_opened, c_sleeps, c_delivered>>
    /\ UNCHANGED <<rvars, fvars>>

InitConsumer ==
    /\ dir = [i \in 1..NFiles |-> [status |-> "absent", recs |-> 0]]
    /\ canceled = FALSE
    /\ cons = [name |-> <<>>, file |-> 0, off |-> 0, err |-> NoErr, msg |-> NoMsg]
    /\ c_pc = "idle"
    /\ c_ret = "none"
    /\ c_loc = NoLoc
    /\ c_opened = <<>>
    /\ c_sleeps = 0
    /\ c_delivered = <<>>

Init == InitRetry /\ InitFS /\ InitConsumer

NextConsumer ==
    \/ FetchNextCall
    \/ FetchNextLow
    \/ FetchNextPoll
    \/ FetchNextSleep
    \/ ProducerCreate
    \/ ProducerWrite
    \/ ProducerRotate
    \/ Cancel

SpecConsumer == Init /\ [][NextConsumer]_vars

NextRetry ==
    \/ \E p \in Paths, m \in Perms : MkdirAll(p, m)
    \/ \E p \in Paths, q \in Paths : Rename(p, q)
    \/ \E p \in Paths : Remove(p)
    \/ \E p \in Paths : Close(p)
    \/ WithRetryIter
    \/ WithRetryReturn
    \/ WithRetryDone

SpecRetry == Init /\ [][NextRetry]_vars

NextFS ==
    \/ \E n \in Paths, o \in Offsets, f1 \in Faults, f2 \in Faults : DoOpenRead(n, o, f1, f2)
    \/ \E n \in Paths, f1 \in Faults, f2 \in Faults : DoOpenWrite(n, f1, f2)
    \/ CallerResume
    \/ ReadByte
    \/ WriteByte

SpecFS == Init /\ [][NextFS]_vars

-----------------------------------------------------------------------------
(* Properties of withRetry, checked under SpecRetry *)

\* C5: one withRetry call invokes fn at most 101 times (retryTimeout*10
\* retries plus the first attempt) and has slept exactly once less than it has
\* invoked fn; when every attempt failed with a transient-marked error it
\* returns after exactly 101 invocations and 100 sleeps, with the error of the
\* last invocation.
C5_RetryBounded ==
    /\ r_calls <= 101
    /\ r_calls <= retryTimeout * 10 + 1
    /\ (r_calls >= 1 => r_sleeps = r_calls - 1)
    /\ (r_pc = "done" /\ r_nTrans = r_calls) =>
          /\ r_calls = 101
          /\ r_sleeps = 100
          /\ r_ret = r_err
          /\ IsTransient(r_ret)

C5_Witness ==
    r_pc = "done" /\ r_calls = 101 /\ r_nTrans = 101 /\ r_ret = ErrRetriable

\* C6: after a first invocation that failed with an error carrying neither
\* marker, the only step withRetry takes is to return that error: one
\* invocation, no sleep.
C6_PermanentReturnsAtOnce ==
    [][ (r_pc = "loop" /\ r_calls = 1 /\ r_err # NoErr /\ ~IsTransient(r_err)) =>
            /\ r_pc' = "done"
            /\ r_ret' = r_err
            /\ r_calls' = 1
            /\ r_sleeps' = 0 ]_vars

C6_Witness ==
    r_pc = "done" /\ r_calls = 1 /\ r_sleeps = 0 /\ r_ret = ErrNotExist

\* C7: while the first k <= 100 attempts have all failed with transient-marked
\* errors withRetry invokes fn again, and once attempt k+1 has succeeded its
\* only step is to return nil without invoking fn again (k+1 invocations).
C7_TransientInvisible ==
    [][ /\ (r_pc = "loop" /\ IsTransient(r_err) /\ r_nTrans = r_calls /\ r_calls <= 100) =>
              (r_pc' = "loop" /\ r_calls' = r_calls + 1)
        /\ (r_pc = "loop" /\ r_err = NoErr /\ r_nTrans = r_calls - 1) =>
              (r_pc' = "done" /\ r_ret' = NoErr /\ r_calls' = r_calls) ]_vars

C7_Witness ==
    r_pc = "done" /\ r_ret = NoErr /\ r_nTrans = 100 /\ r_calls = 101

\* C11: MkdirAll, Rename, Remove and Close each hand withRetry the client call
\* of the same name with their own arguments: every invocation of fn, the
\* first and each retry after a transient failure (while i < 100), makes that
\* call, and the method returns what withRetry returns.
C11_RoutedThroughRetry ==
    /\ [](r_calls >= 1 =>
            /\ r_api.method \in {"MkdirAll", "Rename", "Remove", "Close"}
            /\ r_inv = [op |-> r_api.method, args |-> r_api.args]
            /\ (r_pc = "done" => r_api.ret = r_ret /\ r_ret = r_err))
    /\ [][ (r_pc = "loop" /\ IsTransient(r_err) /\ r_calls <= 100) =>
              /\ r_calls' = r_calls + 1
              /\ r_api' = r_api
              /\ r_inv' = [op |-> r_api.method, args |-> r_api.args] ]_vars

C11_Witness ==
    /\ r_pc = "done"
    /\ r_api.method = "Rename" /\ r_api.args = <<"/t/a", "/t/b">>
    /\ r_inv = [op |-> "Rename", args |-> <<"/t/a", "/t/b">>]
    /\ r_calls = 3 /\ r_nTrans = 2
    /\ r_api.ret = ErrRemote

\* C19: fn is invoked again only when the attempt before it failed with a
\* transient-marked error, never after a success or an unmarked error, and what
\* withRetry returns is the outcome of its last invocation of fn.
C19_StopsAtFirstNonTransient ==
    /\ [](r_pc = "done" => r_ret = r_err)
    /\ [][ (r_pc = "loop" /\ r_calls' # r_calls) =>
              /\ r_calls' = r_calls + 1
              /\ IsTransient(r_err) ]_vars
    /\ [][ (r_pc = "loop" /\ ~IsTransient(r_err)) =>
              (r_pc' = "done" /\ r_ret' = r_err /\ r_calls' = r_calls) ]_vars

C19_Witness ==
    /\ r_pc = "done"
    /\ r_calls = 3 /\ r_nTrans = 2
    /\ r_ret = ErrNotExist

-----------------------------------------------------------------------------
(* Properties of OpenWrite and OpenRead, checked under SpecFS *)

JustReturned(op) == f_pc = "ret" /\ f_call.op = op

NoFaults == f_call.faults = <<NoErr, NoErr>>

\* C8: every OpenWrite call makes Append its first client call and calls
\* Create exactly when that Append failed, so at most one of the two succeeds.
C8_AppendThenCreate ==
    JustReturned("OpenWrite") =>
        LET cl == f_res.calls
            appendFails == f_call.faults[1] # NoErr \/ ~f_call.pre.exists
        IN  /\ Len(cl) \in {1, 2}
            /\ cl[1].c = "Append"
            /\ cl[1].ok <=> ~appendFails
            /\ Len(cl) = 2 <=> appendFails
            /\ Len(cl) = 2 => cl[2].c = "Create"
            /\ Cardinality({k \in 1..Len(cl) : cl[k].ok}) <= 1

C8_Witness ==
    /\ JustReturned("OpenWrite")
    /\ f_res.calls = <<[c |-> "Append", ok |-> FALSE], [c |-> "Create", ok |-> TRUE]>>

\* C9: with a client that fails Append only on a missing path and whose Create
\* makes an empty file, OpenWrite on a missing path succeeds through Create and
\* the path exists afterwards; on an existing path it succeeds through Append
\* alone and the file is as it was.
C9_CreateFallbackNoTruncation ==
    (JustReturned("OpenWrite") /\ NoFaults) =>
        /\ f_res.err = NoErr
        /\ f_res.f.open /\ f_res.f.path = f_call.name
        /\ IF f_call.pre.exists
           THEN /\ f_res.calls = <<[c |-> "Append", ok |-> TRUE]>>
                /\ fs[f_call.name] = f_call.pre
           ELSE /\ f_res.calls = <<[c |-> "Append", ok |-> FALSE], [c |-> "Create", ok |-> TRUE]>>
                /\ fs[f_call.name] = [exists |-> TRUE, data |-> <<>>]

C9_Witness ==
    /\ JustReturned("OpenWrite") /\ NoFaults
    /\ f_call.pre.exists /\ Len(f_call.pre.data) = MaxLen
    /\ f_res.err = NoErr

\* C10: OpenRead fails, returning no stream, exactly when Open fails (missing
\* file) or Seek fails (offset outside the file); otherwise it returns a stream
\* of that file positioned at offset, and the first byte read from it is the
\* byte at offset.
C10_OpenReadSeeks ==
    /\ JustReturned("OpenRead") =>
          LET ok == /\ NoFaults
                    /\ f_call.pre.exists
                    /\ f_call.offset >= 0
                    /\ f_call.offset <= Len(f_call.pre.data)
          IN  /\ f_res.err = NoErr <=> ok
              /\ f_res.err # NoErr => ~f_res.f.open
              /\ f_res.err = NoErr =>
                    /\ f_res.f.open
                    /\ f_res.f.path = f_call.name
                    /\ f_res.f.pos = f_call.offset
    /\ rs.first # <<>> => rs.first = <<fs[rs.f.path].data[rs.want + 1]>>

C10_Witness ==
    rs.f.open /\ rs.want = 1 /\ rs.first = <<Payload(2)>>

CallNames == [k \in 1..Len(f_res.calls) |-> f_res.calls[k].c]

\* C17 as stated: no client call is made twice in one OpenRead or OpenWrite,
\* and a transient failure of any of them is what the caller gets back.
C17_TransientFailureReturned ==
    /\ JustReturned("OpenRead") =>
          /\ CallNames \in {<<"Open">>, <<"Open", "Seek">>}
          /\ \A k \in 1..Len(f_res.calls) :
                IsTransient(f_call.faults[k]) => f_res.err = f_call.faults[k]
    /\ JustReturned("OpenWrite") =>
          /\ CallNames \in {<<"Append">>, <<"Append", "Create">>}
          /\ \A k \in 1..Len(f_res.calls) :
                IsTransient(f_call.faults[k]) => f_res.err = f_call.faults[k]

\* C17, amended: no client call is made twice in one OpenRead or OpenWrite; a
\* transient failure of Open, Seek or Create ends the call and is returned;
\* a transient failure of Append is followed by the one Create call, whose
\* outcome is returned, never by a second Append.
C17_OpeningNeverRetried ==
    /\ JustReturned("OpenRead") =>
          /\ CallNames \in {<<"Open">>, <<"Open", "Seek">>}
          /\ IsTransient(f_call.faults[1]) =>
                (CallNames = <<"Open">> /\ f_res.err = f_call.faults[1])
          /\ (Len(f_res.calls) = 2 /\ IsTransient(f_call.faults[2])) =>
                f_res.err = f_call.faults[2]
          /\ f_res.err # NoErr => ~f_res.calls[Len(f_res.calls)].ok
    /\ JustReturned("OpenWrite") =>
          /\ CallNames \in {<<"Append">>, <<"Append", "Create">>}
          /\ IsTransient(f_call.faults[1]) => CallNames = <<"Append", "Create">>
          /\ (Len(f_res.calls) = 2 /\ IsTransient(f_call.faults[2])) =>
                f_res.err = f_call.faults[2]
          /\ f_res.err = NoErr <=> f_res.calls[Len(f_res.calls)].ok

C17_Witness ==
    /\ JustReturned("OpenRead")
    /\ f_call.pre.exists
    /\ f_call.faults = <<NoErr, ErrStandby>>
    /\ f_res.err = ErrStandby
    /\ CallNames = <<"Open", "Seek">>

\* C18: a handle that Open returned inside OpenRead is either the stream
\* OpenRead returns or has been closed by the time OpenRead returns.
C18_NoUnownedReadHandle ==
    JustReturned("OpenRead") =>
        /\ ~f_res.unowned
        /\ (f_res.calls[1].ok /\ ~f_res.f.open) =>
              \E k \in 1..Len(f_res.calls) : f_res.calls[k].c = "Close"

\* C20: OpenWrite calls Create after every failed Append, whatever the failure,
\* and returns the error of the last client call it made: nil when Create
\* succeeded, Create's error when both failed; the Seeker is always nil.
C20_FallbackOnAnyAppendFailure ==
    JustReturned("OpenWrite") =>
        LET appendFails == f_call.faults[1] # NoErr \/ ~f_call.pre.exists
            createErr == IF f_call.faults[2] # NoErr THEN f_call.faults[2]
                         ELSE IF f_call.pre.exists THEN ErrExist
                         ELSE NoErr
        IN  /\ f_res.seeker = "nil"
            /\ appendFails => (CallNames = <<"Append", "Create">> /\ f_res.err = createErr)
            /\ ~appendFails => (CallNames = <<"Append">> /\ f_res.err = NoErr)
            /\ f_res.f.open <=> f_res.err = NoErr

C20_Witness ==
    /\ JustReturned("OpenWrite")
    /\ f_call.pre.exists
    /\ f_call.faults = <<ErrStandby, NoErr>>
    /\ f_res.calls = <<[c |-> "Append", ok |-> FALSE], [c |-> "Create", ok |-> FALSE]>>
    /\ f_res.err = ErrExist

-----------------------------------------------------------------------------
(* Properties of the consumer, checked under SpecConsumer *)

\* C1: when discovery has answered a canceled consumer with an empty name and
\* no error, the wait loop has been left and FetchNext has returned false.
C1_CancelEndsFetch ==
    (c_loc.polled /\ c_loc.cncl /\ c_loc.nextFn = <<>> /\ c_loc.err = NoErr) =>
        /\ c_pc = "idle"
        /\ c_ret = "false"

\* C2: every name openFile has been called with is non-empty and carries no
\* ".open" suffix: it is the plain name of a file of the topic.
C2_NeverOpensInProgress ==
    \A k \in 1..Len(c_opened) :
        LET n == c_opened[k].name
        IN  /\ n # <<>>
            /\ n \notin {OpenName(i) : i \in 1..NFiles}
            /\ n \in {FileName(i) : i \in 1..NFiles}

C2_Witness ==
    /\ c_pc = "sleep"
    /\ c_loc.nextFn = OpenName(2)
    /\ c_opened = <<[name |-> FileName(1), offset |-> 0]>>

PollStep == c_pc = "poll" /\ c_pc' # "poll"

\* C3: a poll whose discovery fails stores the error on the consumer and makes
\* FetchNext return true at once: nothing is opened, there is no sleep, and no
\* further poll happens in that call.
C3_DiscoveryErrorReported ==
    /\ [](c_loc.err # NoErr =>
            (c_pc = "idle" /\ c_ret = "true" /\ cons.err = c_loc.err))
    /\ [][ (PollStep /\ c_loc'.err # NoErr) =>
              /\ c_pc' = "idle"
              /\ c_ret' = "true"
              /\ cons'.err = c_loc'.err
              /\ c_opened' = c_opened
              /\ c_sleeps' = c_sleeps
              /\ cons'.name = cons.name /\ cons'.file = cons.file /\ cons'.off = cons.off
       ]_vars

C3_Witness ==
    /\ c_pc = "idle" /\ c_ret = "true"
    /\ c_loc.err = ErrRemote /\ cons.err = ErrRemote
    /\ c_sleeps >= 1

\* C4: a poll that finds the candidate in progress opens nothing and does not
\* return: FetchNext sleeps; the only way out of the sleep is another poll; and
\* a poll that finds a finalized candidate opens exactly that file at offset 0.
C4_WaitsForFinalized ==
    [][ /\ (PollStep /\ c_loc'.nextFn \in {OpenName(i) : i \in 1..NFiles}) =>
              /\ c_pc' = "sleep"
              /\ c_ret' = "none"
              /\ c_opened' = c_opened
              /\ cons' = cons
        /\ (c_pc = "sleep" /\ c_pc' # "sleep") =>
              /\ c_pc' = "poll"
              /\ c_sleeps' = c_sleeps + 1
              /\ c_opened' = c_opened
        /\ \A i \in 1..NFiles :
              (PollStep /\ c_loc'.err = NoErr /\ c_loc'.nextFn = FileName(i)) =>
                  /\ c_opened' = Append(c_opened, [name |-> FileName(i), offset |-> 0])
                  /\ cons'.file = i /\ cons'.name = FileName(i) /\ cons'.off = 0
                  /\ c_loc.nextFn = OpenName(i) => c_sleeps >= 1
       ]_vars

C4_Witness ==
    /\ c_sleeps = MaxSleeps
    /\ c_loc.prevFn = OpenName(1) /\ c_loc.nextFn = FileName(1)
    /\ c_opened = <<[name |-> FileName(1), offset |-> 0]>>
    /\ cons.file = 1 /\ cons.off = 0

\* the records numbered 1..n of file i, in the order they were written
FileRecords(i, n) == [k \in 1..n |-> <<i, k>>]

RECURSIVE AllBefore(_, _)
\* every record of the files before file i, file by file in rotation order
AllBefore(d, i) ==
    IF i <= 1 THEN <<>>
    ELSE AllBefore(d, i - 1) \o FileRecords(i - 1, d[i - 1].recs)

\* a step on which FetchNext returns true to its caller
ReturnsTrue == c_pc # "idle" /\ c_pc' = "idle" /\ c_ret' = "true"

\* C12: a consumer started fresh delivers the records of the rotated files in
\* the order written, each exactly once: what has been delivered is always
\* every record of the files before the current one followed by the records of
\* the current file up to the cursor; a delivery happens only on a true return;
\* and a true return with no stored error delivers exactly one record, the one
\* FetchNext exposes.
C12_DeliversAllInOrder ==
    /\ [](c_delivered = AllBefore(dir, cons.file) \o FileRecords(cons.file, cons.off))
    /\ [][ /\ (c_delivered' # c_delivered) => ReturnsTrue
           /\ (ReturnsTrue /\ cons'.err = NoErr) =>
                 c_delivered' = Append(c_delivered, cons'.msg)
         ]_vars

C12_Witness ==
    /\ dir[1] = [status |-> "final", recs |-> MaxRecs]
    /\ dir[2] = [status |-> "final", recs |-> MaxRecs]
    /\ cons.err = NoErr
    /\ cons.file = 2 /\ cons.off = MaxRecs
    /\ c_delivered = FileRecords(1, MaxRecs) \o FileRecords(2, MaxRecs)
    /\ c_ret = "true" /\ c_pc = "idle"

\* C13: whenever FetchNext returns true, a record was decoded in that call or
\* the stored error is non-nil. In particular a poll that opens a finalized
\* file with no stored error does not return: FetchNext goes round its loop to
\* read the file, and a read that yields no record goes back to discovery.
C13_TrueMeansRecordOrError ==
    [][ /\ ReturnsTrue =>
              \/ /\ c_delivered' = Append(c_delivered, cons'.msg)
                 /\ cons'.msg = <<cons.file, cons.off + 1>>
              \/ cons'.err # NoErr
        /\ (PollStep /\ c_opened' # c_opened /\ cons'.err = NoErr) =>
              /\ c_pc' = "fetch"
              /\ c_ret' = "none"
        /\ (c_pc = "fetch" /\ c_pc' # "fetch" /\ c_delivered' = c_delivered) =>
              /\ c_pc' = "poll"
              /\ c_ret' = "none"
      ]_vars

C13_Witness ==
    /\ c_pc = "poll"
    /\ c_loc.polled /\ c_loc.nextFn = FileName(1)
    /\ dir[1] = [status |-> "final", recs |-> 0]
    /\ c_opened = <<[name |-> FileName(1), offset |-> 0]>>
    /\ cons.file = 1 /\ cons.err = NoErr
    /\ c_ret = "none"

\* C14: the cursor only moves forward. The files opened so far are the
\* finalized files of the topic in rotation order, each at offset 0 and none
\* twice; a file is opened exactly on a poll whose candidate is finalized, and
\* it is that candidate; the file and the position within it never go back.
C14_CursorOnlyForward ==
    /\ [](/\ Len(c_opened) <= NFiles
          /\ \A k \in 1..Len(c_opened) :
                c_opened[k] = [name |-> FileName(k), offset |-> 0]
          /\ cons.file = Len(c_opened))
    /\ [][ /\ c_opened' =
                IF /\ PollStep
                   /\ c_loc'.err = NoErr
                   /\ c_loc'.nextFn \in {FileName(i) : i \in 1..NFiles}
                THEN Append(c_opened, [name |-> c_loc'.nextFn, offset |-> 0])
                ELSE c_opened
           /\ cons'.file >= cons.file
           /\ (cons'.file = cons.file) => cons'.off >= cons.off
           /\ (cons'.file # cons.file) =>
                 /\ cons'.file = cons.file + 1
                 /\ cons.file # 0 => cons.off = dir[cons.file].recs
         ]_vars

C14_Witness ==
    /\ c_opened = <<[name |-> FileName(1), offset |-> 0],
                    [name |-> FileName(2), offset |-> 0]>>
    /\ cons.file = 2 /\ cons.off = dir[2].recs
    /\ dir[1].recs >= 1 /\ dir[2].recs >= 1
    /\ c_pc \in {"poll", "sleep"}

\* the currently open file still has unconsumed data
HasData == cons.file # 0 /\ cons.off < dir[cons.file].recs

\* C15: while the open file has unconsumed data, FetchNext returns true with
\* the next record and neither polls, opens nor sleeps; discovery is entered
\* only from a read that found the current file exhausted.
C15_ReadsBeforeDiscovery ==
    [][ /\ (c_pc = "fetch" /\ c_pc' # "fetch" /\ HasData) =>
              /\ c_pc' = "idle"
              /\ c_ret' = "true"
              /\ cons' = [cons EXCEPT !.off = @ + 1,
                                      !.msg = <<cons.file, cons.off + 1>>]
              /\ c_loc' = c_loc
              /\ c_opened' = c_opened
              /\ c_sleeps' = c_sleeps
        /\ (c_pc # "poll" /\ c_pc' = "poll") =>
              \/ c_pc = "sleep"
              \/ c_pc = "fetch" /\ ~HasData
        /\ (c_pc \in {"poll", "sleep"}) => ~HasData
      ]_vars

C15_Witness ==
    /\ c_pc = "idle" /\ c_ret = "true"
    /\ ~c_loc.polled /\ c_sleeps = 0
    /\ cons.file = 1 /\ cons.off = MaxRecs
    /\ cons.msg = <<1, MaxRecs>>

\* C16: Errored is terminal: once a discovery error is stored on the consumer,
\* FetchNext never again polls for a file or sleeps.
C16_ErroredIsTerminal ==
    cons.err # NoErr => c_pc \notin {"poll", "sleep"}

====
